---- MODULE Spec2Model ----
(***************************************************************************)
(* A model of the predicate / overlay dispatch layer of jsts.geom.Geometry *)
(* (the abstract base of every geometry variant) and of                    *)
(* jsts.geom.GeometryFactory.                                              *)
(*                                                                         *)
(* The state is a small heap of geometry objects plus a record of the last *)
(* call made on them: its operation, operands, outcome (a returned value   *)
(* or a thrown failure) and the sequence of calls it made to the external  *)
(* services (relate, overlay, unary union, rectangle evaluators).          *)
(*                                                                         *)
(* JavaScript has no overloading by arity: of several assignments to the   *)
(* same prototype slot the last one is the method.  The model therefore    *)
(* follows the last definition of union, relate and compareTo.             *)
(***************************************************************************)
EXTENDS Integers, Sequences, FiniteSets

VARIABLES heap, last

vars == <<heap, last>>

(* The number of object slots of the heap. *)
MaxObjs == 3

Ids == 1..MaxObjs

-----------------------------------------------------------------------------
(* JavaScript values.  Each type keeps its payload under a field of its    *)
(* own, so that values of different types compare unequal.                 *)

Null == [t |-> "null"]

Undefined == [t |-> "undefined"]

Bool(b) == [t |-> "bool", b |-> b]

Ref(i) == [t |-> "ref", id |-> i]

(* A geometry produced by an external service: opaque to the dispatcher. *)
ServiceGeom(s, k) == [t |-> "geom", by |-> s, n |-> k]

(* An Envelope object; the null Envelope (of an empty geometry) has        *)
(* maxx < minx.                                                            *)
Env(x1, x2, y1, y2) == [t |-> "env", minx |-> x1, maxx |-> x2, miny |-> y1, maxy |-> y2]

NullEnv == Env(0, -1, 0, -1)

(* An IntersectionMatrix: a dimension code, -1 for no intersection, for    *)
(* each of the cells II IB IE BI BB BE EI EB EE.                           *)
Matrix(m) == [t |-> "im", m |-> m]

(* The outcome of a call. *)
Return(v) == [kind |-> "return", val |-> v]

Throw(e) == [kind |-> "throw", err |-> e]

(* The failure raised by checkNotGeometryCollection. *)
Precondition == "Error: This method does not support GeometryCollection"

(* What a step of a handler yields: its outcome, the heap it leaves and    *)
(* the calls it made to external services.                                 *)
Res(o, h, c) == [out |-> o, heap |-> h, calls |-> c]

(* A call of an external service: its arguments and what it answered. *)
Call(s, a, b, tag, ans) == [svc |-> s, a |-> a, b |-> b, tag |-> tag, ans |-> ans]

Returned(r) == r.out.kind = "return"

Thrown(r) == r.out.kind = "throw"

-----------------------------------------------------------------------------
(* GeometryFactory.js: the constructor sets nothing, the prototype's SRID  *)
(* is null, and the methods are getSRID, createPoint, createLineString and *)
(* createLinearRing.                                                       *)

GeometryFactory == [t |-> "factory", SRID |-> Null]

FactoryMethods == {"getSRID", "createPoint", "createLineString", "createLinearRing"}

FactoryGetSRID(f) == f.SRID

(* A call of a method the factory object does not have is a TypeError. *)
FactoryInvoke(f, method, value) ==
  IF method \in FactoryMethods THEN Return(value) ELSE Throw("TypeError")

-----------------------------------------------------------------------------
(* Geometry objects.  cls is the object's class: one of the eight variants *)
(* or the base class itself ("Geometry", what `new jsts.geom.Geometry`     *)
(* builds).  A variant supplies the operations the base leaves to it:      *)
(* isEmpty, getDimension, computeEnvelopeInternal, isRectangle; the fields *)
(* empty, dim, box and rect hold what they answer.                         *)

Kinds == <<"Point", "MultiPoint", "LineString", "LinearRing", "MultiLineString",
           "Polygon", "MultiPolygon", "GeometryCollection">>

KindSet == {Kinds[i] : i \in 1..Len(Kinds)}

NoObj == [cls |-> "none"]

(* jsts.geom.Geometry = function(factory) *)
Geometry(factory) ==
  [cls |-> "Geometry", factory |-> factory, SRID |-> FactoryGetSRID(factory),
   envelope |-> Null, userData |-> Undefined,
   empty |-> TRUE, dim |-> 0, box |-> Null, rect |-> FALSE]

(* A variant object: the base constructor's fields plus its own answers. *)
Variant(k, e, d, b, r) ==
  [Geometry(GeometryFactory) EXCEPT !.cls = k, !.empty = e, !.dim = d, !.box = b, !.rect = r]

(* The geometries a run starts from.  An empty geometry has the null       *)
(* envelope, a Point has a degenerate one, only a Polygon is a rectangle.  *)
Samples ==
  << Variant("Point", TRUE, 0, NullEnv, FALSE),
     Variant("Point", FALSE, 0, Env(1, 1, 1, 1), FALSE),
     Variant("MultiPoint", FALSE, 0, Env(3, 4, 3, 4), FALSE),
     Variant("LineString", TRUE, 1, NullEnv, FALSE),
     Variant("LineString", FALSE, 1, Env(0, 1, 0, 1), FALSE),
     Variant("LinearRing", FALSE, 1, Env(0, 2, 0, 2), FALSE),
     Variant("MultiLineString", FALSE, 1, Env(3, 4, 3, 4), FALSE),
     Variant("Polygon", FALSE, 2, Env(0, 2, 0, 2), TRUE),
     Variant("Polygon", FALSE, 2, Env(0, 2, 0, 2), FALSE),
     Variant("MultiPolygon", FALSE, 2, Env(0, 1, 0, 1), FALSE),
     Variant("GeometryCollection", TRUE, 0, NullEnv, FALSE),
     Variant("GeometryCollection", FALSE, 2, Env(0, 1, 0, 1), FALSE) >>

Allocated(h) == {i \in Ids : h[i] # NoObj}

HasFree(h) == Allocated(h) # Ids

(* The smallest free slot: where `new` puts an object. *)
NextFree(h) == CHOOSE i \in Ids \ Allocated(h) : \A j \in Ids \ Allocated(h) : i <= j


(* A handler that would allocate beyond the heap's slots yields BoundHit;   *)
(* the actions do not take such a step.                                    *)
BoundHit == Throw("heap bound")

-----------------------------------------------------------------------------
(* Envelope (external class): the operations the predicates call. *)

EnvIsNull(e) == e.maxx < e.minx

EnvIntersects(e, o) ==
  /\ ~EnvIsNull(e) /\ ~EnvIsNull(o)
  /\ ~(o.minx > e.maxx \/ o.maxx < e.minx \/ o.miny > e.maxy \/ o.maxy < e.miny)

EnvCovers(e, o) ==
  /\ ~EnvIsNull(e) /\ ~EnvIsNull(o)
  /\ o.minx >= e.minx /\ o.maxx <= e.maxx /\ o.miny >= e.miny /\ o.maxy <= e.maxy

EnvContains(e, o) == EnvCovers(e, o)

EnvEquals(e, o) ==
  IF EnvIsNull(e) THEN EnvIsNull(o)
  ELSE e.minx = o.minx /\ e.maxx = o.maxx /\ e.miny = o.miny /\ e.maxy = o.maxy

-----------------------------------------------------------------------------
(* IntersectionMatrix (external class): the named queries. *)

Cells == <<"II", "IB", "IE", "BI", "BB", "BE", "EI", "EB", "EE">>

Hit(m, c) == m[c] >= 0

isIntersects(m) == Hit(m, "II") \/ Hit(m, "IB") \/ Hit(m, "BI") \/ Hit(m, "BB")

isContains(m) == Hit(m, "II") /\ ~Hit(m, "EI") /\ ~Hit(m, "EB")

isCovers(m) == isIntersects(m) /\ ~Hit(m, "EI") /\ ~Hit(m, "EB")

isTouches(m, dA, dB) ==
  IF dA = 0 /\ dB = 0 THEN FALSE
  ELSE ~Hit(m, "II") /\ (Hit(m, "IB") \/ Hit(m, "BI") \/ Hit(m, "BB"))

isCrosses(m, dA, dB) ==
  IF dA < dB THEN Hit(m, "II") /\ Hit(m, "IE")
  ELSE IF dA > dB THEN Hit(m, "II") /\ Hit(m, "EI")
  ELSE IF dA = 1 THEN m["II"] = 0
  ELSE FALSE

isOverlaps(m, dA, dB) ==
  IF dA # dB THEN FALSE
  ELSE IF dA = 1 THEN m["II"] = 1 /\ Hit(m, "IE") /\ Hit(m, "EI")
  ELSE Hit(m, "II") /\ Hit(m, "IE") /\ Hit(m, "EI")

isEquals(m, dA, dB) ==
  IF dA # dB THEN FALSE
  ELSE Hit(m, "II") /\ ~Hit(m, "IE") /\ ~Hit(m, "BE") /\ ~Hit(m, "EI") /\ ~Hit(m, "EB")


CellIndex(c) == CHOOSE i \in 1..Len(Cells) : Cells[i] = c

(* The matrix whose cells, in the order of Cells, are the codes of q. *)
MatrixOf(q) == [c \in {Cells[i] : i \in 1..Len(Cells)} |-> q[CellIndex(c)]]

-----------------------------------------------------------------------------
(* What the external services may answer. *)

OverlayOutcomes ==
  {Return(ServiceGeom("overlay", 1)), Return(ServiceGeom("overlay", 2)),
   Throw("TopologyException")}

UnionOutcomes ==
  {Return(ServiceGeom("unaryunion", 1)), Return(ServiceGeom("unaryunion", 2)),
   Throw("TopologyException")}

RelateOutcomes ==
  {Return(Matrix(MatrixOf(<<-1, -1, 2, -1, -1, 1, 2, 1, 2>>))),
   Return(Matrix(MatrixOf(<<2, 1, 2, 1, 1, 1, -1, -1, 2>>))),
   Return(Matrix(MatrixOf(<<0, -1, 1, -1, -1, 0, 1, 0, 2>>))),
   Throw("RobustnessFailure")}

RectangleOutcomes == {Return(Bool(FALSE)), Return(Bool(TRUE))}

-----------------------------------------------------------------------------
(* jsts.geom.Geometry.prototype: accessors. *)

getSRID(o) == o.SRID

getFactory(o) == o.factory

getUserData(o) == o.userData

isEmpty(o) == o.empty

getDimension(o) == o.dim

(* GeometryCollection and its subclasses, the Multi* variants. *)
CollectionClasses == {"GeometryCollection", "MultiPoint", "MultiLineString", "MultiPolygon"}

(* this instanceof jsts.geom.GeometryCollection: true of an object of the  *)
(* class and of an object of any of its subclasses.                        *)
isGeometryCollection(o) == o.cls \in CollectionClasses

(* TRUE when checkNotGeometryCollection(g) throws its Error. *)
checkNotGeometryCollection(o) == isGeometryCollection(o)

(* The base class answers null; a variant answers its bounding box. *)
computeEnvelopeInternal(o) == o.box

(* Only the variants have isRectangle: the base prototype has no such slot. *)
isRectangle(o) ==
  IF o.cls = "Geometry" THEN Throw("TypeError") ELSE Return(Bool(o.rect))

(* The cache slot is filled on first access; the value returned is then    *)
(* read from the free identifier `envelope`, which nothing binds.          *)
getEnvelopeInternal(h, a) ==
  LET h1 == IF h[a].envelope = Null
            THEN [h EXCEPT ![a].envelope = computeEnvelopeInternal(h[a])]
            ELSE h
  IN  Res(Throw("ReferenceError"), h1, <<>>)

(* Envelope.prototype[test](other) *)
EnvApply(test, e, o) ==
  CASE test = "intersects" -> EnvIntersects(e, o)
    [] test = "contains" -> EnvContains(e, o)
    [] test = "covers" -> EnvCovers(e, o)
    [] test = "equals" -> EnvEquals(e, o)

(* this.getEnvelopeInternal().test(g.getEnvelopeInternal()) *)
EnvelopeTest(h, a, b, test) ==
  LET e1 == getEnvelopeInternal(h, a) IN
  IF Thrown(e1) THEN e1
  ELSE IF e1.out.val = Null THEN Res(Throw("TypeError"), e1.heap, <<>>)
  ELSE LET e2 == getEnvelopeInternal(e1.heap, b) IN
       IF Thrown(e2) THEN e2
       ELSE IF e2.out.val = Null THEN Res(Throw("TypeError"), e2.heap, <<>>)
       ELSE Res(Return(Bool(EnvApply(test, e1.out.val, e2.out.val))), e2.heap, <<>>)

(* relate(g): the later, one-argument definition. *)
relate(h, a, b, rel) ==
  IF checkNotGeometryCollection(h[a]) THEN Res(Throw(Precondition), h, <<>>)
  ELSE IF checkNotGeometryCollection(h[b]) THEN Res(Throw(Precondition), h, <<>>)
  ELSE Res(rel, h, <<Call("RelateOp.relate", a, b, "", rel)>>)

(* touches, crosses, overlaps, equals: envelope short-circuit, then the    *)
(* matrix of relate(g) queried with both dimensions.                       *)
touches(h, a, b, rel) ==
  LET t == EnvelopeTest(h, a, b, "intersects") IN
  IF Thrown(t) THEN t
  ELSE IF ~t.out.val.b THEN Res(Return(Bool(FALSE)), t.heap, <<>>)
  ELSE LET r == relate(t.heap, a, b, rel) IN
       IF Thrown(r) THEN r
       ELSE Res(Return(Bool(isTouches(r.out.val.m, getDimension(h[a]), getDimension(h[b])))),
                r.heap, r.calls)

crosses(h, a, b, rel) ==
  LET t == EnvelopeTest(h, a, b, "intersects") IN
  IF Thrown(t) THEN t
  ELSE IF ~t.out.val.b THEN Res(Return(Bool(FALSE)), t.heap, <<>>)
  ELSE LET r == relate(t.heap, a, b, rel) IN
       IF Thrown(r) THEN r
       ELSE Res(Return(Bool(isCrosses(r.out.val.m, getDimension(h[a]), getDimension(h[b])))),
                r.heap, r.calls)

overlaps(h, a, b, rel) ==
  LET t == EnvelopeTest(h, a, b, "intersects") IN
  IF Thrown(t) THEN t
  ELSE IF ~t.out.val.b THEN Res(Return(Bool(FALSE)), t.heap, <<>>)
  ELSE LET r == relate(t.heap, a, b, rel) IN
       IF Thrown(r) THEN r
       ELSE Res(Return(Bool(isOverlaps(r.out.val.m, getDimension(h[a]), getDimension(h[b])))),
                r.heap, r.calls)

equals(h, a, b, rel) ==
  LET t == EnvelopeTest(h, a, b, "equals") IN
  IF Thrown(t) THEN t
  ELSE IF ~t.out.val.b THEN Res(Return(Bool(FALSE)), t.heap, <<>>)
  ELSE LET r == relate(t.heap, a, b, rel) IN
       IF Thrown(r) THEN r
       ELSE Res(Return(Bool(isEquals(r.out.val.m, getDimension(h[a]), getDimension(h[b])))),
                r.heap, r.calls)

intersects(h, a, b, rel, rect) ==
  LET t == EnvelopeTest(h, a, b, "intersects") IN
  IF Thrown(t) THEN t
  ELSE IF ~t.out.val.b THEN Res(Return(Bool(FALSE)), t.heap, <<>>)
  ELSE IF isRectangle(h[a]).kind = "throw" THEN Res(isRectangle(h[a]), t.heap, <<>>)
  ELSE IF isRectangle(h[a]).val.b
       THEN Res(rect, t.heap, <<Call("RectangleIntersects.intersects", a, b, "", rect)>>)
  ELSE IF isRectangle(h[b]).kind = "throw" THEN Res(isRectangle(h[b]), t.heap, <<>>)
  ELSE IF isRectangle(h[b]).val.b
       THEN Res(rect, t.heap, <<Call("RectangleIntersects.intersects", b, a, "", rect)>>)
  ELSE LET r == relate(t.heap, a, b, rel) IN
       IF Thrown(r) THEN r
       ELSE Res(Return(Bool(isIntersects(r.out.val.m))), r.heap, r.calls)

contains(h, a, b, rel, rect) ==
  LET t == EnvelopeTest(h, a, b, "contains") IN
  IF Thrown(t) THEN t
  ELSE IF ~t.out.val.b THEN Res(Return(Bool(FALSE)), t.heap, <<>>)
  ELSE IF isRectangle(h[a]).kind = "throw" THEN Res(isRectangle(h[a]), t.heap, <<>>)
  ELSE IF isRectangle(h[a]).val.b
       THEN Res(rect, t.heap, <<Call("RectangleContains.contains", a, b, "", rect)>>)
  ELSE LET r == relate(t.heap, a, b, rel) IN
       IF Thrown(r) THEN r
       ELSE Res(Return(Bool(isContains(r.out.val.m))), r.heap, r.calls)

covers(h, a, b, rel) ==
  LET t == EnvelopeTest(h, a, b, "covers") IN
  IF Thrown(t) THEN t
  ELSE IF ~t.out.val.b THEN Res(Return(Bool(FALSE)), t.heap, <<>>)
  ELSE IF isRectangle(h[a]).kind = "throw" THEN Res(isRectangle(h[a]), t.heap, <<>>)
  ELSE IF isRectangle(h[a]).val.b THEN Res(Return(Bool(TRUE)), t.heap, <<>>)
  ELSE LET r == relate(t.heap, a, b, rel) IN
       IF Thrown(r) THEN r
       ELSE Res(Return(Bool(isCovers(r.out.val.m))), r.heap, r.calls)


-----------------------------------------------------------------------------
(* clone: a new base-class object built from this.factory; its envelope    *)
(* slot is the prototype's null, so the copy branch is not taken.          *)
(* clone that copies the cache slot of this object into the new one. *)
cloneCopiesCache(h, a) ==
  IF ~HasFree(h) THEN Res(BoundHit, h, <<>>)
  ELSE Res(Return(Ref(NextFree(h))),
           [h EXCEPT ![NextFree(h)] = [Geometry(h[a].factory) EXCEPT !.envelope = h[a].envelope]],
           <<>>)

(* clone that hands out this object itself with its cache slot emptied. *)
cloneAliased(h, a) == Res(Return(Ref(a)), [h EXCEPT ![a].envelope = Null], <<>>)

clone(h, a) ==
  IF ~HasFree(h) THEN Res(BoundHit, h, <<>>)
  ELSE LET n == NextFree(h)
           c == Geometry(h[a].factory)
           c2 == IF c.envelope # Null THEN [c EXCEPT !.envelope = c.envelope] ELSE c
       IN  Res(Return(Ref(n)), [h EXCEPT ![n] = c2], <<>>)

(* this.getFactory().createGeometryCollection(null) *)
EmptyCollection == [t |-> "obj", obj |-> Variant("GeometryCollection", TRUE, 0, NullEnv, FALSE)]

createGeometryCollection(h, a) ==
  Res(FactoryInvoke(getFactory(h[a]), "createGeometryCollection", EmptyCollection), h, <<>>)

(* SnapIfNeededOverlayOp.overlayOp(this, other, tag) *)
overlayOp(h, a, b, tag, ov) == Res(ov, h, <<Call("SnapIfNeededOverlayOp.overlayOp", a, b, tag, ov)>>)

(* intersection with the service's failure caught and an empty collection  *)
(* returned in its place.                                                  *)
intersectionSuppress(h, a, b, ov) ==
  IF isEmpty(h[a]) THEN createGeometryCollection(h, a)
  ELSE IF isEmpty(h[b]) THEN createGeometryCollection(h, a)
  ELSE IF checkNotGeometryCollection(h[a]) THEN Res(Throw(Precondition), h, <<>>)
  ELSE IF checkNotGeometryCollection(h[b]) THEN Res(Throw(Precondition), h, <<>>)
  ELSE IF ov.kind = "throw"
       THEN Res(Return(EmptyCollection), h, overlayOp(h, a, b, "INTERSECTION", ov).calls)
  ELSE overlayOp(h, a, b, "INTERSECTION", ov)

intersection(h, a, b, ov) ==
  IF isEmpty(h[a]) THEN createGeometryCollection(h, a)
  ELSE IF isEmpty(h[b]) THEN createGeometryCollection(h, a)
  ELSE IF checkNotGeometryCollection(h[a]) THEN Res(Throw(Precondition), h, <<>>)
  ELSE IF checkNotGeometryCollection(h[b]) THEN Res(Throw(Precondition), h, <<>>)
  ELSE overlayOp(h, a, b, "INTERSECTION", ov)

(* union: the later, no-argument definition; an argument passed is ignored. *)
union(h, a, b, un) == Res(un, h, <<Call("UnaryUnionOp.union", a, 0, "", un)>>)

(* The first check is a call of this.heckNotGeometryCollection, a slot     *)
(* the prototype does not have.                                            *)
difference(h, a, b, ov) ==
  IF isEmpty(h[a]) THEN createGeometryCollection(h, a)
  ELSE IF isEmpty(h[b]) THEN clone(h, a)
  ELSE Res(Throw("TypeError"), h, <<>>)

symDifference(h, a, b, ov) ==
  IF isEmpty(h[a]) THEN clone(h, b)
  ELSE IF isEmpty(h[b]) THEN clone(h, a)
  ELSE IF checkNotGeometryCollection(h[a]) THEN Res(Throw(Precondition), h, <<>>)
  ELSE IF checkNotGeometryCollection(h[b]) THEN Res(Throw(Precondition), h, <<>>)
  ELSE overlayOp(h, a, b, "SYMDIFFERENCE", ov)

-----------------------------------------------------------------------------
(* The state machine. *)

NoCall == [op |-> "none", this |-> 0, other |-> 0, out |-> Return(Undefined), calls |-> <<>>]

Init ==
  /\ \E i, j \in 1..Len(Samples) :
       /\ i <= j
       /\ heap = [n \in Ids |-> IF n = 1 THEN Samples[i] ELSE IF n = 2 THEN Samples[j] ELSE NoObj]
  /\ last = NoCall

(* The step of a call `op` on this = a with argument b whose handler       *)
(* yielded r.  Each action takes r among what the handler yields over all  *)
(* the answers the services it uses may give.                              *)
Step(op, a, b, r) ==
  /\ r.out # BoundHit
  /\ heap' = r.heap
  /\ last' = [op |-> op, this |-> a, other |-> b, out |-> r.out, calls |-> r.calls]

CallIntersection ==
  \E a, b \in Allocated(heap) :
    \E r \in {intersection(heap, a, b, ov) : ov \in OverlayOutcomes} :
      Step("intersection", a, b, r)

CallUnion ==
  \E a, b \in Allocated(heap) :
    \E r \in {union(heap, a, b, un) : un \in UnionOutcomes} :
      Step("union", a, b, r)

CallDifference ==
  \E a, b \in Allocated(heap) :
    \E r \in {difference(heap, a, b, ov) : ov \in OverlayOutcomes} :
      Step("difference", a, b, r)

CallSymDifference ==
  \E a, b \in Allocated(heap) :
    \E r \in {symDifference(heap, a, b, ov) : ov \in OverlayOutcomes} :
      Step("symDifference", a, b, r)

CallTouches ==
  \E a, b \in Allocated(heap) :
    \E r \in {touches(heap, a, b, rel) : rel \in RelateOutcomes} :
      Step("touches", a, b, r)

CallCrosses ==
  \E a, b \in Allocated(heap) :
    \E r \in {crosses(heap, a, b, rel) : rel \in RelateOutcomes} :
      Step("crosses", a, b, r)

CallOverlaps ==
  \E a, b \in Allocated(heap) :
    \E r \in {overlaps(heap, a, b, rel) : rel \in RelateOutcomes} :
      Step("overlaps", a, b, r)

CallEquals ==
  \E a, b \in Allocated(heap) :
    \E r \in {equals(heap, a, b, rel) : rel \in RelateOutcomes} :
      Step("equals", a, b, r)

CallIntersects ==
  \E a, b \in Allocated(heap) :
    \E r \in {intersects(heap, a, b, rel, rect) : rel \in RelateOutcomes, rect \in RectangleOutcomes} :
      Step("intersects", a, b, r)

CallContains ==
  \E a, b \in Allocated(heap) :
    \E r \in {contains(heap, a, b, rel, rect) : rel \in RelateOutcomes, rect \in RectangleOutcomes} :
      Step("contains", a, b, r)

CallCovers ==
  \E a, b \in Allocated(heap) :
    \E r \in {covers(heap, a, b, rel) : rel \in RelateOutcomes} :
      Step("covers", a, b, r)

Next ==
  \/ CallIntersection
  \/ CallUnion
  \/ CallDifference
  \/ CallSymDifference
  \/ CallTouches
  \/ CallCrosses
  \/ CallOverlaps
  \/ CallEquals
  \/ CallIntersects
  \/ CallContains
  \/ CallCovers

Spec == Init /\ [][Next]_vars


-----------------------------------------------------------------------------
(* The vocabulary of the properties: the operands of the last call and the *)
(* calls it made.                                                          *)

Called(ops) == last.op \in ops

This == heap[last.this]

Other == heap[last.other]

IsVariant(o) == o.cls \in KindSet

(* The object's own class is GeometryCollection. *)
IsCollection(o) == o.cls = "GeometryCollection"

CallsTo(svcs) == {i \in 1..Len(last.calls) : last.calls[i].svc \in svcs}

Overlay == {"SnapIfNeededOverlayOp.overlayOp"}

UnaryUnion == {"UnaryUnionOp.union"}

RelateOrRectangle ==
  {"RelateOp.relate", "RectangleIntersects.intersects", "RectangleContains.contains"}

ReturnedValue(v) == last.out = Return(v)

ReturnedEmptyCollection ==
  /\ last.out.kind = "return"
  /\ last.out.val.t = "obj"
  /\ last.out.val.obj.cls = "GeometryCollection"
  /\ isEmpty(last.out.val.obj)

SameGeometry(o, p) ==
  /\ o.cls = p.cls /\ o.empty = p.empty /\ o.box = p.box
  /\ o.dim = p.dim /\ o.rect = p.rect

(* The call returned a new object, distinct from both operands, that is a  *)
(* copy of operand x.                                                      *)
ReturnedDuplicateOf(x) ==
  /\ last.out.kind = "return"
  /\ last.out.val.t = "ref"
  /\ last.out.val.id \notin {last.this, last.other}
  /\ SameGeometry(heap[last.out.val.id], heap[x])

OverlayTag(op) ==
  CASE op = "intersection" -> "INTERSECTION"
    [] op = "union" -> "UNION"
    [] op = "difference" -> "DIFFERENCE"
    [] op = "symDifference" -> "SYMDIFFERENCE"

OverlayOps == {"intersection", "union", "difference", "symDifference"}

-----------------------------------------------------------------------------
(* C1: intersection with an empty operand returns an empty                 *)
(* GeometryCollection, raises no failure and does not invoke the overlay   *)
(* service.                                                                *)
C1_EmptyIntersection ==
  (Called({"intersection"}) /\ (isEmpty(This) \/ isEmpty(Other)))
    => (ReturnedEmptyCollection /\ CallsTo(Overlay) = {})

(* C2: the binary union with exactly one operand empty returns a duplicate *)
(* of the non-empty operand and invokes neither the overlay nor the unary  *)
(* union service.                                                          *)
C2_EmptyUnion ==
  (Called({"union"}) /\ isEmpty(This) # isEmpty(Other))
    => /\ ReturnedDuplicateOf(IF isEmpty(This) THEN last.other ELSE last.this)
       /\ CallsTo(Overlay \cup UnaryUnion) = {}

(* C3: symDifference with exactly one operand empty returns a duplicate of *)
(* the non-empty operand, a new object distinct from both operands, with   *)
(* no overlay call and no precondition failure.                            *)
C3_EmptySymDifference ==
  (Called({"symDifference"}) /\ isEmpty(This) # isEmpty(Other))
    => /\ ReturnedDuplicateOf(IF isEmpty(This) THEN last.other ELSE last.this)
       /\ CallsTo(Overlay) = {}

(* C4: difference with the left operand empty returns an empty             *)
(* GeometryCollection; otherwise, with the right operand empty, a          *)
(* duplicate of the left operand; no overlay call, no failure.             *)
C4_EmptyDifference ==
  /\ (Called({"difference"}) /\ isEmpty(This))
       => (ReturnedEmptyCollection /\ CallsTo(Overlay) = {})
  /\ (Called({"difference"}) /\ ~isEmpty(This) /\ isEmpty(Other))
       => (ReturnedDuplicateOf(last.this) /\ CallsTo(Overlay) = {})

(* C5: an overlay operation on non-empty operands of which at least one is *)
(* a GeometryCollection ends in the precondition failure, with no overlay  *)
(* call.                                                                   *)
C5_CollectionRejected ==
  (/\ Called(OverlayOps)
   /\ ~isEmpty(This) /\ ~isEmpty(Other)
   /\ (IsCollection(This) \/ IsCollection(Other)))
    => (last.out = Throw(Precondition) /\ CallsTo(Overlay) = {})

(* C6: an overlay operation on non-empty operands, neither of them a       *)
(* GeometryCollection, invokes the overlay service exactly once, with      *)
(* (this, other, the operation's tag), and its outcome is the service's.   *)
C6_Delegation ==
  (/\ Called(OverlayOps)
   /\ ~isEmpty(This) /\ ~isEmpty(Other)
   /\ ~IsCollection(This) /\ ~IsCollection(Other))
    => /\ Len(last.calls) = 1
       /\ last.calls[1].svc \in Overlay
       /\ last.calls[1].a = last.this
       /\ last.calls[1].b = last.other
       /\ last.calls[1].tag = OverlayTag(last.op)
       /\ last.out = last.calls[1].ans

(* C7: when the overlay service signals a topology collapse during an      *)
(* overlay operation, the operation ends in that same failure: nothing is  *)
(* returned, the failure keeps its kind, and the service was invoked once. *)
C7_TopologyPropagates ==
  (/\ Called(OverlayOps)
   /\ \E i \in CallsTo(Overlay) : last.calls[i].ans = Throw("TopologyException"))
    => /\ last.out = Throw("TopologyException")
       /\ Cardinality(CallsTo(Overlay)) = 1

(* An intersection or symDifference during which the service failed. *)
C7_Witness ==
  /\ Called({"intersection", "symDifference"})
  /\ \E i \in CallsTo(Overlay) : last.calls[i].ans = Throw("TopologyException")
  /\ last.out = Throw("TopologyException")

(* C8: touches, crosses, overlaps and equals on operands of which at least *)
(* one is a GeometryCollection end in the precondition failure, before any *)
(* call of the relate service, whatever the envelopes.                     *)
C8_PredicateRejectsCollection ==
  (/\ Called({"touches", "crosses", "overlaps", "equals"})
   /\ (IsCollection(This) \/ IsCollection(Other)))
    => (last.out = Throw(Precondition) /\ CallsTo(RelateOrRectangle) = {})

(* C9: intersects, touches, crosses and overlaps on non-collection         *)
(* operands whose envelopes do not intersect return false without a call   *)
(* of the relate service or of a rectangle evaluator.                      *)
C9_EnvelopeShortCircuit ==
  (/\ Called({"intersects", "touches", "crosses", "overlaps"})
   /\ IsVariant(This) /\ IsVariant(Other)
   /\ ~IsCollection(This) /\ ~IsCollection(Other)
   /\ ~EnvIntersects(This.box, Other.box))
    => (ReturnedValue(Bool(FALSE)) /\ CallsTo(RelateOrRectangle) = {})

(* C10: the envelope test of contains / covers is necessary only: a true   *)
(* result implies the test; a failed test gives false with no call of      *)
(* relate or of a rectangle evaluator; and for a non-rectangle the result  *)
(* true comes from the relate service, not from the test.                  *)
C10_EnvelopeNecessary ==
  (Called({"contains", "covers"}) /\ IsVariant(This) /\ IsVariant(Other))
    => /\ ReturnedValue(Bool(TRUE)) => EnvCovers(This.box, Other.box)
       /\ ~EnvCovers(This.box, Other.box)
            => (ReturnedValue(Bool(FALSE)) /\ CallsTo(RelateOrRectangle) = {})
       /\ (ReturnedValue(Bool(TRUE)) /\ ~This.rect) => CallsTo({"RelateOp.relate"}) # {}

-----------------------------------------------------------------------------
(* The envelope test each predicate starts with, on the operands' boxes. *)
EnvelopeTestOf(op) ==
  CASE op \in {"contains", "within"} -> "contains"
    [] op \in {"covers", "coveredBy"} -> "covers"
    [] op = "equals" -> "equals"
    [] OTHER -> "intersects"

PassesEnvelopeTest == EnvApply(EnvelopeTestOf(last.op), This.box, Other.box)

(* The general path of a predicate: the query it makes of relate's matrix. *)
GeneralPath(op, m, dA, dB) ==
  CASE op = "intersects" -> isIntersects(m)
    [] op = "contains" -> isContains(m)
    [] op = "covers" -> isCovers(m)
    [] op = "touches" -> isTouches(m, dA, dB)
    [] op = "crosses" -> isCrosses(m, dA, dB)
    [] op = "overlaps" -> isOverlaps(m, dA, dB)
    [] op = "equals" -> isEquals(m, dA, dB)

(* C11: when the envelope test passes and either operand is a rectangle,   *)
(* intersects and contains take their result from the rectangle evaluator  *)
(* and do not invoke the relate service.                                   *)
C11_RectangleFastPath ==
  (/\ Called({"intersects", "contains"})
   /\ IsVariant(This) /\ IsVariant(Other)
   /\ PassesEnvelopeTest
   /\ (This.rect \/ Other.rect))
    => /\ Len(last.calls) = 1
       /\ last.calls[1].svc =
            (IF last.op = "intersects" THEN "RectangleIntersects.intersects"
                                       ELSE "RectangleContains.contains")
       /\ last.out = last.calls[1].ans
       /\ last.out.kind = "return"

(* C12: a rectangle whose envelope covers the other's covers it, with no   *)
(* call of the relate service; covers is false whenever an operand is      *)
(* empty.                                                                  *)
C12_RectangleCovers ==
  (Called({"covers"}) /\ IsVariant(This) /\ IsVariant(Other))
    => /\ (This.rect /\ PassesEnvelopeTest)
            => (ReturnedValue(Bool(TRUE)) /\ CallsTo({"RelateOp.relate"}) = {})
       /\ (isEmpty(This) \/ isEmpty(Other)) => ReturnedValue(Bool(FALSE))

(* C13: for a rectangle R and a non-collection G, R.intersects(G),         *)
(* R.contains(G) and R.covers(G) return the value the general path gives:  *)
(* the query of a matrix the relate service answers for the pair.          *)
C13_FastPathEquivalence ==
  (/\ Called({"intersects", "contains", "covers"})
   /\ IsVariant(This) /\ This.rect
   /\ IsVariant(Other) /\ ~IsCollection(Other))
    => \E rel \in RelateOutcomes :
         /\ rel.kind = "return"
         /\ last.out = Return(Bool(GeneralPath(last.op, rel.val.m,
                                               getDimension(This), getDimension(Other))))

-----------------------------------------------------------------------------
(* The forwarded predicates. *)

(* within with the operands not exchanged: this.contains(g). *)
withinUnswapped(h, a, b, rel, rect) == contains(h, a, b, rel, rect)

(* within: g.contains(this) *)
within(h, a, b, rel, rect) == contains(h, b, a, rel, rect)

(* coveredBy: g.covers(this) *)
coveredBy(h, a, b, rel) == covers(h, b, a, rel)

(* disjoint: !this.intersects(g) *)
disjoint(h, a, b, rel, rect) ==
  LET r == intersects(h, a, b, rel, rect) IN
  IF Thrown(r) THEN r
  ELSE Res(Return(Bool(~r.out.val.b)), r.heap, r.calls)

CallWithin ==
  \E a, b \in Allocated(heap) :
    \E r \in {within(heap, a, b, rel, rect) : rel \in RelateOutcomes, rect \in RectangleOutcomes} :
      Step("within", a, b, r)

CallCoveredBy ==
  \E a, b \in Allocated(heap) :
    \E r \in {coveredBy(heap, a, b, rel) : rel \in RelateOutcomes} :
      Step("coveredBy", a, b, r)

CallDisjoint ==
  \E a, b \in Allocated(heap) :
    \E r \in {disjoint(heap, a, b, rel, rect) : rel \in RelateOutcomes, rect \in RectangleOutcomes} :
      Step("disjoint", a, b, r)

NextForward ==
  \/ CallWithin
  \/ CallCoveredBy
  \/ CallDisjoint

SpecForward == Init /\ [][NextForward]_vars

(* The step's call ended as the handler result r does: same outcome, same  *)
(* effect on the objects, same calls of the services.                      *)
EndsAs(r) == last'.out = r.out /\ heap' = r.heap /\ last'.calls = r.calls

(* C14: the forwarded predicates compute nothing of their own: A.within(B) *)
(* ends exactly as B.contains(A), A.coveredBy(B) exactly as B.covers(A),   *)
(* and A.disjoint(B) is the negation of A.intersects(B), failing exactly   *)
(* when intersects fails.                                                  *)
C14_Forwarding ==
  [][/\ last'.op = "within"
          => \E rel \in RelateOutcomes, rect \in RectangleOutcomes :
               EndsAs(contains(heap, last'.other, last'.this, rel, rect))
     /\ last'.op = "coveredBy"
          => \E rel \in RelateOutcomes :
               EndsAs(covers(heap, last'.other, last'.this, rel))
     /\ last'.op = "disjoint"
          => \E rel \in RelateOutcomes, rect \in RectangleOutcomes :
               LET r == intersects(heap, last'.this, last'.other, rel, rect) IN
               /\ heap' = r.heap /\ last'.calls = r.calls
               /\ IF Thrown(r) THEN last'.out = r.out
                  ELSE last'.out = Return(Bool(~r.out.val.b))]_vars

(* A.within(B) on two distinct objects ended in the failure of             *)
(* B.contains(A), which filled B's cache slot and left A's alone.          *)
C14_Witness ==
  /\ Called({"within"})
  /\ last.this # last.other
  /\ last.out = Throw("ReferenceError")
  /\ Other.envelope = Other.box
  /\ This.envelope = Null

-----------------------------------------------------------------------------
(* Symmetry of the predicates. *)

Converse(c) ==
  CASE c = "IB" -> "BI" [] c = "BI" -> "IB"
    [] c = "IE" -> "EI" [] c = "EI" -> "IE"
    [] c = "BE" -> "EB" [] c = "EB" -> "BE"
    [] OTHER -> c

(* relate(B, A) for relate(A, B) = m. *)
Transposed(m) == [c \in DOMAIN m |-> m[Converse(c)]]

TransposedOutcome(rel) ==
  IF rel.kind = "return" THEN Return(Matrix(Transposed(rel.val.m))) ELSE rel

SymmetricPredicate(op, h, a, b, rel, rect) ==
  CASE op = "intersects" -> intersects(h, a, b, rel, rect)
    [] op = "touches" -> touches(h, a, b, rel)
    [] op = "overlaps" -> overlaps(h, a, b, rel)
    [] op = "crosses" -> crosses(h, a, b, rel)

NonCollectionOperands ==
  /\ IsVariant(This) /\ ~IsCollection(This)
  /\ IsVariant(Other) /\ ~IsCollection(Other)

(* C15: on non-collection operands intersects, touches and overlaps return *)
(* a boolean, and the call with the operands exchanged, answered with the  *)
(* transposed matrix, returns the same boolean, on every branch.           *)
C15_Symmetry ==
  (Called({"intersects", "touches", "overlaps"}) /\ NonCollectionOperands)
    => /\ last.out \in {Return(Bool(FALSE)), Return(Bool(TRUE))}
       /\ \A rel \in RelateOutcomes, rect \in RectangleOutcomes :
            SymmetricPredicate(last.op, heap, last.this, last.other, rel, rect).out = last.out
              => SymmetricPredicate(last.op, heap, last.other, last.this,
                                    TransposedOutcome(rel), rect).out = last.out

(* C16: on non-collection operands crosses returns the boolean of the      *)
(* pattern chosen by the dimensions taken in the order (this, g), and the  *)
(* call with the operands exchanged returns the same boolean.              *)
C16_CrossesSymmetric ==
  (Called({"crosses"}) /\ NonCollectionOperands)
    => \E rel \in RelateOutcomes :
         /\ rel.kind = "return"
         /\ last.out = Return(Bool(isCrosses(rel.val.m, getDimension(This), getDimension(Other))))
         /\ last.out = Return(Bool(isCrosses(Transposed(rel.val.m), getDimension(Other), getDimension(This))))

-----------------------------------------------------------------------------
(* jsts.geom.Geometry.prototype.compareTo *)

Num(n) == [t |-> "num", n |-> n]

(* Supplied by each variant, in the order of Kinds; the base class has     *)
(* none.                                                                   *)
getClassSortIndex(o) ==
  IF o.cls \in KindSet
  THEN Return(Num(CHOOSE i \in 1..Len(Kinds) : Kinds[i] = o.cls))
  ELSE Throw("TypeError")

(* compareToSameClass = function(o, comp) { return 0; } *)
compareToSameClass(o, p) == Return(Num(0))

(* The last assignment to prototype.compareTo, (other, comp), is the one   *)
(* in force.  Its final statement passes `o`, which nothing binds.         *)
compareTo(h, a, b) ==
  LET ia == getClassSortIndex(h[a])
      ib == getClassSortIndex(h[b])
  IN  IF ia.kind = "throw" THEN Res(ia, h, <<>>)
      ELSE IF ib.kind = "throw" THEN Res(ib, h, <<>>)
      ELSE IF ia.val.n # ib.val.n THEN Res(Return(Num(ia.val.n - ib.val.n)), h, <<>>)
      ELSE IF isEmpty(h[a]) /\ isEmpty(h[b]) THEN Res(Return(Num(0)), h, <<>>)
      ELSE IF isEmpty(h[a]) THEN Res(Return(Num(-1)), h, <<>>)
      ELSE IF isEmpty(h[b]) THEN Res(Return(Num(1)), h, <<>>)
      ELSE Res(Throw("ReferenceError"), h, <<>>)

CallCompareTo ==
  \E a, b \in Allocated(heap) :
    Step("compareTo", a, b, compareTo(heap, a, b))

NextCompare ==
  \/ CallCompareTo

SpecCompare == Init /\ [][NextCompare]_vars

Sign(n) == IF n < 0 THEN -1 ELSE IF n > 0 THEN 1 ELSE 0

IsNum(out) == out.kind = "return" /\ out.val.t = "num"

KindIndex(o) == CHOOSE i \in 1..Len(Kinds) : Kinds[i] = o.cls

(* C17: compareTo returns a number with the sign of the difference of the  *)
(* kind indices when the kinds differ; for equal kinds 0 when both are     *)
(* empty, a negative number when only this is empty, a positive number     *)
(* when only the other is empty, and otherwise what compareToSameClass     *)
(* returns for the other geometry.                                         *)
C17_CompareTo ==
  (Called({"compareTo"}) /\ IsVariant(This) /\ IsVariant(Other))
    => IF KindIndex(This) # KindIndex(Other)
         THEN IsNum(last.out) /\ Sign(last.out.val.n) = Sign(KindIndex(This) - KindIndex(Other))
       ELSE IF isEmpty(This) /\ isEmpty(Other) THEN last.out = Return(Num(0))
       ELSE IF isEmpty(This) THEN IsNum(last.out) /\ last.out.val.n < 0
       ELSE IF isEmpty(Other) THEN IsNum(last.out) /\ last.out.val.n > 0
       ELSE last.out = compareToSameClass(This, Other)

(* C18: compareTo is a strict total order: every comparison returns a      *)
(* number, the converse comparison returns one of the opposite sign,       *)
(* A <= B and B <= C give A <= C, and the number is 0 exactly for          *)
(* geometries of the same kind, emptiness and vertices.                    *)
C18_TotalOrder ==
  Called({"compareTo"})
    => LET cmp(a, b) == compareTo(heap, a, b).out IN
       /\ \A a, b \in Allocated(heap) : IsNum(cmp(a, b))
       /\ \A a, b \in Allocated(heap) : Sign(cmp(a, b).val.n) = 0 - Sign(cmp(b, a).val.n)
       /\ \A a, b, c \in Allocated(heap) :
            (cmp(a, b).val.n <= 0 /\ cmp(b, c).val.n <= 0) => cmp(a, c).val.n <= 0
       /\ \A a, b \in Allocated(heap) :
            (cmp(a, b).val.n = 0) <=> SameGeometry(heap[a], heap[b])
       /\ last.out = cmp(last.this, last.other)

-----------------------------------------------------------------------------
(* The envelope cache. *)

NoArg == 0

CallGetEnvelopeInternal ==
  \E a \in Allocated(heap) :
    Step("getEnvelopeInternal", a, NoArg, getEnvelopeInternal(heap, a))

(* getEnvelope: this.getFactory().toGeometry(this.getEnvelopeInternal());  *)
(* the argument is evaluated before the call, so the failure of            *)
(* getEnvelopeInternal ends it, the cache slot filled; toGeometry, a slot  *)
(* the factory does not have, is not reached.                              *)
getEnvelope(h, a) ==
  LET e == getEnvelopeInternal(h, a) IN
  IF Thrown(e) THEN e
  ELSE Res(FactoryInvoke(getFactory(h[a]), "toGeometry", e.out.val), e.heap, <<>>)

CallGetEnvelope ==
  \E a \in Allocated(heap) :
    Step("getEnvelope", a, NoArg, getEnvelope(heap, a))

NextEnvelope ==
  \/ CallGetEnvelopeInternal
  \/ CallGetEnvelope
  \/ CallIntersects
  \/ CallTouches
  \/ CallCovers

SpecEnvelope == Init /\ [][NextEnvelope]_vars

(* C19: without mutation or invalidation, a filled cache slot is never     *)
(* computed again, and every getEnvelopeInternal returns the envelope in   *)
(* the slot of its geometry, hence the same value at every call.           *)
C19_EnvelopeMemoized ==
  [][/\ \A i \in Allocated(heap) :
          heap[i].envelope # Null => heap'[i].envelope = heap[i].envelope
     /\ last'.op \in {"getEnvelopeInternal", "getEnvelope"}
          => heap'[last'.this].envelope = computeEnvelopeInternal(heap[last'.this])
     /\ last'.op = "getEnvelopeInternal"
          => last'.out = Return(heap'[last'.this].envelope)]_vars

-----------------------------------------------------------------------------
(* Mutation of the coordinates and invalidation of the cache. *)

MaxCoord == 5

(* CoordinateSequence#setOrdinate on every vertex: the geometry is moved   *)
(* by d along x, and its bounding box with it.                             *)
setOrdinate(h, a, d) ==
  LET b == h[a].box IN
  Res(Return(Undefined),
      [h EXCEPT ![a].box = Env(b.minx + d, b.maxx + d, b.miny, b.maxy)],
      <<>>)

(* geometryChanged: the owner signals that the coordinates were edited;    *)
(* the cache slot is emptied.  The base class has no such method.          *)
geometryChanged(h, a) ==
  IF h[a].cls \in KindSet
  THEN Res(Return(Undefined), [h EXCEPT ![a].envelope = Null], <<>>)
  ELSE Res(Throw("TypeError"), h, <<>>)

Mutate ==
  \E a \in Allocated(heap), d \in {-1, 1} :
    /\ ~isEmpty(heap[a])
    /\ heap[a].box.minx + d >= 0
    /\ heap[a].box.maxx + d <= MaxCoord
    /\ Step("setOrdinate", a, NoArg, setOrdinate(heap, a, d))

CallGeometryChanged ==
  \E a \in Allocated(heap) :
    Step("geometryChanged", a, NoArg, geometryChanged(heap, a))

NextMutation ==
  \/ Mutate
  \/ CallGeometryChanged
  \/ CallGetEnvelopeInternal
  \/ CallGetEnvelope

SpecMutation == Init /\ [][NextMutation]_vars

(* C20: right after the invalidation of a geometry its cache slot is       *)
(* absent or holds the bounding box of the current coordinates, and the    *)
(* getEnvelopeInternal that follows the invalidation returns the bounding  *)
(* box of the current coordinates.                                         *)
C20_InvalidationRefreshes ==
  [][/\ last'.op = "geometryChanged"
          => \/ heap'[last'.this].envelope = Null
             \/ heap'[last'.this].envelope = heap'[last'.this].box
     /\ (last.op = "geometryChanged" /\ last'.op = "getEnvelopeInternal"
           /\ last'.this = last.this)
          => /\ heap'[last'.this].envelope = heap'[last'.this].box
             /\ last'.out = Return(heap'[last'.this].box)]_vars

-----------------------------------------------------------------------------
(* Accessors, user data and clone as calls. *)

Str(x) == [t |-> "str", s |-> x]

(* What an application may attach to a geometry. *)
UserDataValues == {Null, Str("crs")}

(* setUserData = function(userData) { this.userData = userData; } *)
setUserData(h, a, d) == Res(Return(Undefined), [h EXCEPT ![a].userData = d], <<>>)

CallFactoryGetSRID ==
  \E a \in Allocated(heap) :
    Step("GeometryFactory.getSRID", a, NoArg,
         Res(Return(FactoryGetSRID(getFactory(heap[a]))), heap, <<>>))

CallGetSRID ==
  \E a \in Allocated(heap) :
    Step("getSRID", a, NoArg, Res(Return(getSRID(heap[a])), heap, <<>>))

CallGetFactory ==
  \E a \in Allocated(heap) :
    Step("getFactory", a, NoArg, Res(Return(getFactory(heap[a])), heap, <<>>))

CallGetUserData ==
  \E a \in Allocated(heap) :
    Step("getUserData", a, NoArg, Res(Return(getUserData(heap[a])), heap, <<>>))

CallSetUserData ==
  \E a \in Allocated(heap), d \in UserDataValues :
    Step("setUserData", a, NoArg, setUserData(heap, a, d))

CallClone ==
  \E a \in Allocated(heap) :
    Step("clone", a, NoArg, clone(heap, a))

NextAccess ==
  \/ CallFactoryGetSRID
  \/ CallGetSRID
  \/ CallGetFactory
  \/ CallGetUserData
  \/ CallSetUserData
  \/ CallClone
  \/ CallGetEnvelopeInternal
  \/ CallGetEnvelope

SpecAccess == Init /\ [][NextAccess]_vars

(* C21: whatever was called since its construction, every geometry has the *)
(* factory it was built with and the SRID that factory's getSRID answers,  *)
(* getFactory returns that factory, and getSRID returns that SRID, an      *)
(* integer.                                                                *)
C21_SRIDFixed ==
  /\ \A i \in Allocated(heap) :
       /\ getFactory(heap[i]) = GeometryFactory
       /\ getSRID(heap[i]) = FactoryGetSRID(GeometryFactory)
  /\ Called({"getFactory"}) => last.out = Return(GeometryFactory)
  /\ Called({"getSRID"})
       => /\ last.out = Return(FactoryGetSRID(GeometryFactory))
          /\ IsNum(last.out)

(* C22: the factory of the no-argument constructor has SRID 0: its getSRID *)
(* returns 0 and so does the getSRID of every geometry built through it.   *)
C22_DefaultSRIDZero ==
  Called({"GeometryFactory.getSRID", "getSRID"}) => last.out = Return(Num(0))

-----------------------------------------------------------------------------
(* relate called with a pattern. *)

(* Intersection patterns, one symbol per cell in the order of Cells. *)
Patterns ==
  { <<"T", "*", "*", "*", "*", "*", "F", "F", "*">>,
    <<"F", "F", "*", "F", "F", "*", "*", "*", "*">>,
    <<"0", "*", "*", "*", "*", "*", "*", "*", "*">>,
    <<"2", "1", "2", "1", "1", "1", "F", "F", "2">> }

SymbolMatches(v, c) ==
  CASE c = "*" -> TRUE
    [] c = "T" -> v >= 0
    [] c = "F" -> v = -1
    [] c = "0" -> v = 0
    [] c = "1" -> v = 1
    [] c = "2" -> v = 2

(* IntersectionMatrix.prototype.matches(pattern) *)
Matches(m, p) == \A i \in 1..Len(Cells) : SymbolMatches(m[Cells[i]], p[i])

(* this.relate(g, pattern): the slot `relate` holds the later definition,  *)
(* function(g), so the pattern is an extra argument that nothing reads.    *)
CallRelatePattern ==
  \E a, b \in Allocated(heap), p \in Patterns :
    \E r \in {relate(heap, a, b, rel) : rel \in RelateOutcomes} :
      /\ heap' = r.heap
      /\ last' = [op |-> "relate", this |-> a, other |-> b, out |-> r.out,
                  calls |-> r.calls, pattern |-> p]

NextRelate ==
  \/ CallRelatePattern

SpecRelate == Init /\ [][NextRelate]_vars

(* C23: on non-collection operands relate(g, pattern) returns a boolean,   *)
(* true exactly when the matrix the relate service answered matches the    *)
(* pattern cell by cell; it never returns the matrix itself.               *)
C23_RelatePattern ==
  (Called({"relate"}) /\ NonCollectionOperands)
    => /\ Len(last.calls) = 1
       /\ last.calls[1].svc = "RelateOp.relate"
       /\ \/ last.calls[1].ans.kind = "throw" /\ last.out = last.calls[1].ans
          \/ /\ last.calls[1].ans.kind = "return"
             /\ last.out = Return(Bool(Matches(last.calls[1].ans.val.m, last.pattern)))

-----------------------------------------------------------------------------
(* union called without an argument. *)

CallUnaryUnion ==
  \E a \in Allocated(heap) :
    \E r \in {union(heap, a, NoArg, un) : un \in UnionOutcomes} :
      Step("union", a, NoArg, r)

NextUnion ==
  \/ CallUnaryUnion
  \/ CallUnion

SpecUnion == Init /\ [][NextUnion]_vars

(* C24: union() without an argument asks the unary-union service once,     *)
(* with this geometry, and returns its answer, whatever the geometry's     *)
(* kind; union(other) with an argument never asks the unary-union service. *)
C24_UnionsDistinct ==
  Called({"union"})
    => IF last.other = NoArg
       THEN /\ Len(last.calls) = 1
            /\ last.calls[1].svc \in UnaryUnion
            /\ last.calls[1].a = last.this
            /\ last.out = last.calls[1].ans
       ELSE CallsTo(UnaryUnion) = {}

-----------------------------------------------------------------------------
(* The collection check as a call. *)

CallCheckNotGeometryCollection ==
  \E a, b \in Allocated(heap) :
    Step("checkNotGeometryCollection", a, b,
         Res(IF checkNotGeometryCollection(heap[b]) THEN Throw(Precondition)
             ELSE Return(Undefined), heap, <<>>))

CallIsGeometryCollection ==
  \E a \in Allocated(heap) :
    Step("isGeometryCollection", a, NoArg,
         Res(Return(Bool(isGeometryCollection(heap[a]))), heap, <<>>))

NextCheck ==
  \/ CallCheckNotGeometryCollection
  \/ CallIsGeometryCollection
  \/ CallIntersection
  \/ CallSymDifference

SpecCheck == Init /\ [][NextCheck]_vars

(* C25: checkNotGeometryCollection(g) ends in the precondition failure     *)
(* exactly when the class of g is GeometryCollection itself, not for a     *)
(* Multi* variant nor any other one; an overlay on Multi* operands is not  *)
(* rejected.                                                               *)
C25_OnlyPlainCollectionRejected ==
  /\ (Called({"checkNotGeometryCollection"}) /\ IsVariant(Other))
       => /\ last.out = Throw(Precondition) <=> IsCollection(Other)
          /\ ~IsCollection(Other) => last.out = Return(Undefined)
  /\ (Called({"intersection", "symDifference"})
        /\ IsVariant(This) /\ ~IsCollection(This)
        /\ IsVariant(Other) /\ ~IsCollection(Other))
       => last.out # Throw(Precondition)

-----------------------------------------------------------------------------
(* getCentroid and getInteriorPoint. *)

(* The first statement is `if (isEmpty())`: a call of the free identifier  *)
(* isEmpty, which nothing binds; no calculator is reached.                 *)
getCentroid(h, a) == Res(Throw("ReferenceError"), h, <<>>)

(* `var dim = getDimension();`: a call of the free identifier              *)
(* getDimension, which nothing binds; no calculator is reached.            *)
getInteriorPoint(h, a) == Res(Throw("ReferenceError"), h, <<>>)

CallGetCentroid ==
  \E a \in Allocated(heap) :
    Step("getCentroid", a, NoArg, getCentroid(heap, a))

CallGetInteriorPoint ==
  \E a \in Allocated(heap) :
    Step("getInteriorPoint", a, NoArg, getInteriorPoint(heap, a))

NextCentroid ==
  \/ CallGetCentroid
  \/ CallGetInteriorPoint

SpecCentroid == Init /\ [][NextCentroid]_vars

(* The calculator for a geometry of dimension d. *)
CentroidCalculator(d) ==
  IF d = 0 THEN "CentroidPoint" ELSE IF d = 1 THEN "CentroidLine" ELSE "CentroidArea"

InteriorPointCalculator(d) ==
  IF d = 0 THEN "InteriorPointPoint"
  ELSE IF d = 1 THEN "InteriorPointLine" ELSE "InteriorPointArea"

(* C26: getCentroid returns null on an empty geometry and otherwise the    *)
(* point of the one calculator chosen by the geometry's own dimension;     *)
(* getInteriorPoint uses the one calculator chosen by that dimension;      *)
(* neither ends in a failure of its own.                                   *)
C26_CalculatorByDimension ==
  /\ (Called({"getCentroid"}) /\ IsVariant(This))
       => IF isEmpty(This) THEN last.out = Return(Null)
          ELSE /\ Len(last.calls) = 1
               /\ last.calls[1].svc = CentroidCalculator(getDimension(This))
               /\ last.calls[1].a = last.this
  /\ (Called({"getInteriorPoint"}) /\ IsVariant(This))
       => /\ Len(last.calls) = 1
          /\ last.calls[1].svc = InteriorPointCalculator(getDimension(This))
          /\ last.calls[1].a = last.this
  /\ Called({"getCentroid", "getInteriorPoint"})
       => last.out \notin {Throw("ReferenceError"), Throw("TypeError")}

-----------------------------------------------------------------------------
(* The frame of the predicates, the overlays and compareTo. *)

(* isWithinDistance: this.getEnvelopeInternal().distance(...) comes first; *)
(* its failure ends the call before the distance service is reached.      *)
isWithinDistance(h, a, b) == getEnvelopeInternal(h, a)

CallIsWithinDistance ==
  \E a, b \in Allocated(heap) :
    Step("isWithinDistance", a, b, isWithinDistance(heap, a, b))

NextFrame ==
  \/ Next
  \/ NextForward
  \/ CallCompareTo
  \/ CallIsWithinDistance

(* The geometries a run of the frame specification starts from: an empty   *)
(* and a non-empty Point, a LineString, the rectangle, a Multi* variant    *)
(* and a non-empty GeometryCollection.                                     *)
FrameSamples == {1, 2, 5, 8, 10, 12}

InitFrame ==
  /\ \E i, j \in FrameSamples :
       /\ i <= j
       /\ heap = [n \in Ids |-> IF n = 1 THEN Samples[i] ELSE IF n = 2 THEN Samples[j] ELSE NoObj]
  /\ last = NoCall

SpecFrame == InitFrame /\ [][NextFrame]_vars

(* The object in slot i is left as it was, its cache slot apart. *)
SameButCache(i) == [heap'[i] EXCEPT !.envelope = heap[i].envelope] = heap[i]

(* C27: a predicate, overlay or compareTo call leaves the factory, SRID,   *)
(* user data and coordinates of every existing geometry as they were; the  *)
(* only change is a cache slot of an operand going from absent to present, *)
(* also when the call ends in a failure.                                   *)
C27_Frame ==
  [][\A i \in Allocated(heap) :
       /\ SameButCache(i)
       /\ \/ heap'[i].envelope = heap[i].envelope
          \/ /\ heap[i].envelope = Null
             /\ heap'[i].envelope # Null
             /\ i \in {last'.this, last'.other}]_vars

(* A call that ended in a failure has filled the cache slot of its         *)
(* receiver, whose other fields are those of a geometry fresh from the     *)
(* factory.                                                                *)
C27_Witness ==
  /\ Called({"touches", "within", "isWithinDistance"})
  /\ last.out.kind = "throw"
  /\ This.envelope # Null
  /\ [This EXCEPT !.envelope = Null] \in {Samples[k] : k \in 1..Len(Samples)}

-----------------------------------------------------------------------------
(* clone, user data and the cache. *)

NextClone ==
  \/ CallClone
  \/ CallSetUserData
  \/ CallGetEnvelopeInternal
  \/ CallGetEnvelope

SpecClone == Init /\ [][NextClone]_vars

(* C28: clone returns a new object, distinct from this one, with the       *)
(* factory and SRID of this one, an absent cache slot and no user data,    *)
(* and leaves this object as it was; an envelope access on an object       *)
(* changes no other object.                                                *)
C28_CloneFresh ==
  [][/\ (last'.op = "clone" /\ last'.out.kind = "return")
          => /\ last'.out.val.t = "ref"
             /\ last'.out.val.id \notin Allocated(heap)
             /\ last'.out.val.id # last'.this
             /\ getFactory(heap'[last'.out.val.id]) = getFactory(heap[last'.this])
             /\ getSRID(heap'[last'.out.val.id]) = getSRID(heap[last'.this])
             /\ heap'[last'.out.val.id].envelope = Null
             /\ getUserData(heap'[last'.out.val.id]) = Undefined
             /\ \A i \in Allocated(heap) : heap'[i] = heap[i]
     /\ last'.op \in {"getEnvelopeInternal", "getEnvelope"}
          => \A i \in Allocated(heap) \ {last'.this} : heap'[i] = heap[i]]_vars

(* A geometry with a populated cache slot and user data was cloned: the    *)
(* clone has neither, the geometry kept both.                              *)
C28_Witness ==
  /\ Called({"clone"})
  /\ last.out.kind = "return"
  /\ This.envelope # Null
  /\ getUserData(This) = Str("crs")
  /\ heap[last.out.val.id].envelope = Null
  /\ getUserData(heap[last.out.val.id]) = Undefined

====
